---- MODULE Spec2Model ----
(***************************************************************************)
(* Model of WaveMCP: the VCD/FST waveform parsers, the process-wide        *)
(* "current parser" state, the query tools and the value formatter.        *)
(* Strings are sequences of one-character strings, so that case folding,   *)
(* substring search and number parsing are computed, not assumed.          *)
(***************************************************************************)
EXTENDS Integers, Sequences, FiniteSets, TLC

VARIABLES vcd_parser, fst_parser, heap, input, last

vars == <<vcd_parser, fst_parser, heap, input, last>>

(***************************************************************************)
(* Bounds of the model.                                                    *)
(***************************************************************************)
MaxLen == 3
MaxPatterns == 2
MaxTime == 3
MaxParsers == 2
MaxBits == 8
MaxDepth == 3
MaxLimit == 3

(***************************************************************************)
(* Python str helpers.                                                     *)
(***************************************************************************)
UpperLetters ==
  <<"A","B","C","D","E","F","G","H","I","J","K","L","M",
    "N","O","P","Q","R","S","T","U","V","W","X","Y","Z">>

LowerLetters ==
  <<"a","b","c","d","e","f","g","h","i","j","k","l","m",
    "n","o","p","q","r","s","t","u","v","w","x","y","z">>

LowerChar(c) ==
  IF \E i \in 1..26 : UpperLetters[i] = c
  THEN LowerLetters[CHOOSE i \in 1..26 : UpperLetters[i] = c]
  ELSE c

\* str.lower()
Lower(s) == [i \in 1..Len(s) |-> LowerChar(s[i])]

\* `sub in s` for strings
Contains(sub, s) ==
  \E i \in 0..(Len(s) - Len(sub)) : SubSeq(s, i + 1, i + Len(sub)) = sub

StartsWithAllButLast(s, prefix) ==
  /\ Len(prefix) - 1 <= Len(s)
  /\ SubSeq(s, 1, Len(prefix) - 1) = SubSeq(prefix, 1, Len(prefix) - 1)

\* s.startswith(prefix)
StartsWith(s, prefix) ==
  /\ Len(prefix) <= Len(s)
  /\ SubSeq(s, 1, Len(prefix)) = prefix

\* s[n:]
Drop(s, n) == SubSeq(s, n + 1, Len(s))

RECURSIVE LStrip(_)
LStrip(s) == IF s # <<>> /\ s[1] = " " THEN LStrip(Tail(s)) ELSE s

RECURSIVE RStrip(_)
RStrip(s) ==
  IF s # <<>> /\ s[Len(s)] = " " THEN RStrip(SubSeq(s, 1, Len(s) - 1)) ELSE s

Strip(s) == RStrip(LStrip(s))

DigitChars == <<"0","1","2","3","4","5","6","7","8","9","A","B","C","D","E","F">>

RECURSIVE NatStr(_, _)
NatStr(n, base) ==
  IF n < base THEN <<DigitChars[n + 1]>>
  ELSE NatStr(n \div base, base) \o <<DigitChars[(n % base) + 1]>>

\* str(n) and format(n, "X"): a sign, then the digits of the magnitude
IntStrLowerHex(n, base) ==
  Lower(IF n < 0 THEN <<"-">> \o NatStr(0 - n, base) ELSE NatStr(n, base))

IntStr(n, base) ==
  IF n < 0 THEN <<"-">> \o NatStr(0 - n, base) ELSE NatStr(n, base)

RECURSIVE BinDigitsValue(_, _)
BinDigitsValue(s, acc) ==
  IF s = <<>> THEN acc
  ELSE IF s[1] = "_" THEN BinDigitsValue(Tail(s), acc)
  ELSE BinDigitsValue(Tail(s), 2 * acc + (IF s[1] = "1" THEN 1 ELSE 0))

\* the digits of int(value, 2): 0 and 1, single underscores between digits
BinDigitsOk(s) ==
  /\ s # <<>>
  /\ s[1] # "_"
  /\ s[Len(s)] # "_"
  /\ \A i \in 1..Len(s) : s[i] \in {"0", "1", "_"}
  /\ \A i \in 1..(Len(s) - 1) : ~(s[i] = "_" /\ s[i + 1] = "_")

ParseFailed == [ok |-> FALSE, val |-> 0]

ParseDigits(s, neg) ==
  IF BinDigitsOk(s)
  THEN [ok |-> TRUE, val |-> (IF neg THEN -1 ELSE 1) * BinDigitsValue(s, 0)]
  ELSE ParseFailed

\* after the sign: an optional 0b/0B prefix, which one underscore may follow
ParsePrefixed(s, neg) ==
  IF s # <<>> /\ s[1] = "_" THEN ParseFailed
  ELSE IF Len(s) >= 2 /\ s[1] = "0" /\ s[2] \in {"b", "B"}
  THEN ParseDigits(Drop(s, IF Len(s) >= 3 /\ s[3] = "_" THEN 3 ELSE 2), neg)
  ELSE ParseDigits(s, neg)

\* after the whitespace: an optional sign
ParseSigned(s) ==
  IF s # <<>> /\ s[1] \in {"+", "-"}
  THEN ParsePrefixed(Tail(s), s[1] = "-")
  ELSE ParsePrefixed(s, FALSE)

\* int(value, 2): surrounding whitespace, a sign, a 0b/0B prefix and single
\* underscores between digits are accepted; anything else is a ValueError.
IntBase2(value) == ParseSigned(Strip(value))

(***************************************************************************)
(* utils/format.py                                                         *)
(***************************************************************************)
FmtBin == <<"b","i","n">>
FmtHex == <<"h","e","x">>
FmtDec == <<"d","e","c">>

NoWarning == [reason |-> "None", value |-> <<>>]

contains_unknown(value) ==
  \/ Contains(<<"x">>, Lower(value))
  \/ Contains(<<"z">>, Lower(value))

FormatRaise == [raised |-> TRUE, formatted |-> <<>>, warning |-> NoWarning]

FormatRet(f, w) == [raised |-> FALSE, formatted |-> f, warning |-> w]

\* hex and dec of a value without x/z, p being the outcome of int(value, 2)
FormatNumber(value, f, p) ==
  IF ~p.ok
  THEN FormatRet(<<"b">> \o value,
                 [reason |-> "could not be parsed as binary", value |-> value])
  ELSE IF f = FmtHex THEN FormatRet(<<"0","x">> \o IntStr(p.val, 16), NoWarning)
  ELSE FormatRet(IntStr(p.val, 10), NoWarning)

\* format_value after fmt = fmt.lower()
FormatLowered(value, f) ==
  IF f \notin {FmtBin, FmtHex, FmtDec} THEN FormatRaise
  ELSE IF f = FmtBin THEN FormatRet(<<"b">> \o value, NoWarning)
  ELSE IF contains_unknown(value)
    THEN FormatRet(<<"b">> \o value,
                   [reason |-> "contains x/z states", value |-> value])
  ELSE FormatNumber(value, f, IntBase2(value))

format_value_lowered(value, fmt) == FormatLowered(Lower(value), Lower(fmt))

format_value_base0(value, fmt) ==
  IF /\ Lower(fmt) \in {FmtHex, FmtDec}
     /\ ~contains_unknown(value)
     /\ Len(value) > 1
     /\ value[1] = "0"
  THEN FormatNumber(value, Lower(fmt), ParseFailed)
  ELSE FormatLowered(value, Lower(fmt))

format_value_exact(value, fmt) == FormatLowered(value, fmt)

format_value(value, fmt) == FormatLowered(value, Lower(fmt))

(***************************************************************************)
(* Trace files.  A file name stands for one trace content, available in    *)
(* both encodings; "missing" does not exist, "corrupt" exists but neither  *)
(* decoder accepts it, "trunc" opens as FST but its hierarchy is damaged.  *)
(***************************************************************************)
top_clk == <<"t","o","p",".","c","l","k">>
top_rst == <<"t","o","p",".","r","s","t">>
top_cnt == <<"t","o","p",".","c","n","t">>
top_u_clk == <<"t","o","p",".","u",".","c","l","k">>
top_u_q == <<"t","o","p",".","u",".","q">>
Top_CLK == <<"T","o","p",".","C","L","K">>
top_nc == <<"t","o","p",".","n","c">>

RECURSIVE LastSegment(_)
\* sig_path.split('.')[-1]
LastSegment(path) ==
  IF Contains(<<".">>, path) THEN LastSegment(Tail(path)) ELSE path

Sig(path, handle, size) ==
  [name |-> LastSegment(path), type |-> "wire", size |-> size,
   path |-> path, handle |-> handle]

Ev(t, h, v) == [time |-> t, handle |-> h, value |-> v]

Trace1 ==
  [signals |-> <<Sig(top_clk, 1, 1), Sig(top_rst, 2, 1), Sig(top_cnt, 3, 2)>>,
   events |-> <<Ev(0, 1, <<"0">>), Ev(0, 2, <<"1">>), Ev(0, 3, <<"0","0">>),
                Ev(1, 1, <<"1">>), Ev(2, 1, <<"0">>), Ev(2, 2, <<"0">>),
                Ev(2, 3, <<"1","x">>), Ev(3, 1, <<"1">>), Ev(3, 3, <<"Z","0">>)>>,
   start |-> 0, end |-> 3]

\* top.u.clk is an alias of top.clk: two names, one facility
Trace2 ==
  [signals |-> <<Sig(top_clk, 1, 1), Sig(top_u_clk, 1, 1), Sig(top_u_q, 2, 1)>>,
   events |-> <<Ev(0, 1, <<"0">>), Ev(1, 2, <<"Z">>), Ev(1, 1, <<"1">>),
                Ev(3, 2, <<"1">>)>>,
   start |-> 0, end |-> 3]

\* a mixed-case path, two changes at one time, and a signal that never changes
Trace3 ==
  [signals |-> <<Sig(Top_CLK, 1, 1), Sig(top_nc, 2, 1)>>,
   events |-> <<Ev(1, 1, <<"1">>), Ev(1, 1, <<"0">>), Ev(2, 1, <<"x">>)>>,
   start |-> 1, end |-> 2]

\* a hierarchy: a signal named like a module, a module whose name extends
\* another module's name, and a signal outside every module
cpu == <<"t","o","p",".","c","p","u">>
cpu_pc == <<"t","o","p",".","c","p","u",".","p","c">>
cpu_alu_y == <<"t","o","p",".","c","p","u",".","a","l","u",".","y">>
cpu2_x == <<"t","o","p",".","c","p","u","2",".","x">>
clk == <<"c","l","k">>

Trace4 ==
  [signals |-> <<Sig(clk, 1, 1), Sig(cpu, 2, 1), Sig(cpu_pc, 3, 2),
                 Sig(cpu_alu_y, 4, 1), Sig(cpu2_x, 5, 1)>>,
   events |-> <<Ev(0, 1, <<"0">>), Ev(0, 3, <<"0","1">>), Ev(1, 1, <<"1">>),
                Ev(1, 4, <<"x">>)>>,
   start |-> 0, end |-> 1]

NoTrace == [signals |-> <<>>, events |-> <<>>, start |-> 0, end |-> 0]

TraceFiles == {"t1", "t2", "t3", "t4"}

Files == TraceFiles \cup {"missing", "corrupt", "trunc"}

TraceOf(f) ==
  CASE f = "t1" -> Trace1
    [] f = "t2" -> Trace2
    [] f = "t3" -> Trace3
    [] f = "t4" -> Trace4
    [] OTHER -> NoTrace

Exists(f) == f # "missing"

\* file size in MB, as compared with max_file_size_mb
SizeMB(f) == IF f = "t2" THEN 3 ELSE 1

(***************************************************************************)
(* Query arguments.                                                        *)
(***************************************************************************)
PatternPool == {<<"C","L","K">>, <<"t","o","p",".","c">>, <<"q">>, <<"n">>}

PatternLists == UNION {[1..n -> PatternPool] : n \in 0..MaxPatterns}

Times == 0..MaxTime

Fmts == {FmtBin, FmtHex, FmtDec, <<"o","c","t">>}

MatchesCaseSensitive(patterns, path) ==
  \E k \in 1..Len(patterns) : Contains(patterns[k], path)

\* any(pattern.lower() in sig_path.lower() for pattern in signal_patterns)
Matches(patterns, path) ==
  \E k \in 1..Len(patterns) : Contains(Lower(patterns[k]), Lower(path))

\* start_time <= t <= end_time
InWindow(t, start_time, end_time) == start_time <= t /\ t <= end_time

\* name = expression: the expression is evaluated once, F uses its value
Bind(e, F(_)) == CHOOSE r \in {F(x) : x \in {e}} : TRUE

RECURSIVE FilterUpTo(_, _, _)
\* the elements of s at the indices of keep that are at most n, in order
FilterUpTo(s, keep, n) ==
  IF n = 0 THEN <<>>
  ELSE IF n \in keep THEN Append(FilterUpTo(s, keep, n - 1), s[n])
  ELSE FilterUpTo(s, keep, n - 1)

\* the subsequence of s at the indices in keep, in order
FilterSeq(s, keep) ==
  Bind(s, LAMBDA s0 : Bind(keep, LAMBDA k0 : FilterUpTo(s0, k0, Len(s0))))

FormatAllPrepend(raw, fmt) ==
  [i \in 1..Len(raw) |->
     <<raw[Len(raw) + 1 - i][1],
       format_value(raw[Len(raw) + 1 - i][2], fmt).formatted>>]

\* [(t, formatted) for (t, v) in raw]
FormatAll(raw, fmt) ==
  [i \in 1..Len(raw) |-> <<raw[i][1], format_value(raw[i][2], fmt).formatted>>]

AnyRaise(raw, fmt) ==
  \E i \in 1..Len(raw) : format_value(raw[i][2], fmt).raised

WarningsOfFirst(path, raw, fmt) ==
  Bind([i \in 1..Len(raw) |->
          [path |-> path, time |-> raw[i][1],
           warning |-> format_value(raw[i][2], fmt).warning]],
       LAMBDA all :
         FilterSeq(all, {i \in 1..Len(all) :
                           /\ all[i].warning # NoWarning
                           /\ \A j \in 1..(i - 1) : all[j].warning = NoWarning}))

\* the f"{sig_path}@{t}: {warning}" entries of one signal, in order
WarningsOf(path, raw, fmt) ==
  Bind([i \in 1..Len(raw) |->
          [path |-> path, time |-> raw[i][1],
           warning |-> format_value(raw[i][2], fmt).warning]],
       LAMBDA all : FilterSeq(all, {i \in 1..Len(all) : all[i].warning # NoWarning}))

RECURSIVE Flatten(_)
Flatten(ss) == IF ss = <<>> THEN <<>> ELSE ss[1] \o Flatten(Tail(ss))

\* {}
EmptyDict == [p \in {} |-> <<>>]

QueryRaise(mask) ==
  [raised |-> TRUE, order |-> <<>>, result |-> EmptyDict, warnings |-> <<>>,
   mask |-> mask]

(***************************************************************************)
(* parsers/fst_parser.py                                                   *)
(***************************************************************************)
\* what fstReaderIterBlocks hands to the callback: the events of the
\* facilities whose process-mask bit is set, in container order
IterBlocks(events, mask) ==
  FilterSeq(events, {i \in 1..Len(events) : events[i].handle \in mask})

FstMatched(signals, patterns) ==
  {i \in 1..Len(signals) : Matches(patterns, signals[i].path)}

\* the (t, value) pairs of a list of events
Pairs(es) == [i \in 1..Len(es) |-> <<es[i].time, es[i].value>>]

\* raw_values after fstReaderIterBlocks: what value_change_callback appended
\* for each matched path, given the events the reader delivered
FstRawValues(signals, delivered, matched, matching_handles, start_time, end_time) ==
  Bind([h \in matching_handles |->
          \* the dict assignment keeps the last matched path of each handle
          signals[CHOOSE i \in matched :
                    /\ signals[i].handle = h
                    /\ \A j \in matched : signals[j].handle = h => j <= i].path],
       LAMBDA handle_to_path :
         [p \in {signals[i].path : i \in matched} |->
            Bind(FilterSeq(delivered,
                           {i \in 1..Len(delivered) :
                              /\ delivered[i].handle \in matching_handles
                              /\ InWindow(delivered[i].time, start_time, end_time)
                              /\ handle_to_path[delivered[i].handle] = p}),
                 Pairs)])

\* the formatting loop over raw_values
FstFormatValues(order, raw_values, fmt, mask) ==
  IF \E p \in DOMAIN raw_values : AnyRaise(raw_values[p], fmt)
  THEN QueryRaise(mask)
  ELSE [raised |-> FALSE, order |-> order,
        result |-> [p \in DOMAIN raw_values |-> FormatAll(raw_values[p], fmt)],
        warnings |-> Flatten([k \in 1..Len(order) |->
                                WarningsOf(order[k], raw_values[order[k]], fmt)]),
        mask |-> mask]

\* the paths of the signals at the indices in matched, in hierarchy order
PathsInOrder(signals, matched) ==
  Bind(FilterSeq(signals, matched), LAMBDA ms : [k \in 1..Len(ms) |-> ms[k].path])

FstGetSignalValuesWithoutClear(signals, events, mask, matched, start_time, end_time, fmt) ==
  Bind(matched, LAMBDA m :
  Bind({signals[i].handle : i \in m}, LAMBDA matching_handles :
    IF matching_handles = {}
    THEN [raised |-> FALSE, order |-> <<>>, result |-> EmptyDict,
          warnings |-> <<>>, mask |-> mask]
    ELSE
  Bind(IterBlocks(events, mask \cup matching_handles), LAMBDA delivered :
  Bind(FstRawValues(signals, delivered, m, matching_handles,
                    start_time, end_time), LAMBDA raw_values :
  Bind(PathsInOrder(signals, m), LAMBDA order :
    FstFormatValues(order, raw_values, fmt, mask \cup matching_handles))))))

FstGetSignalValuesWith(signals, events, mask, matched, start_time, end_time, fmt) ==
  Bind(matched, LAMBDA m :
  Bind({signals[i].handle : i \in m}, LAMBDA matching_handles :
    IF matching_handles = {}
    THEN [raised |-> FALSE, order |-> <<>>, result |-> EmptyDict,
          warnings |-> <<>>, mask |-> mask]
    ELSE
  Bind(IterBlocks(events, matching_handles), LAMBDA delivered :
  Bind(FstRawValues(signals, delivered, m, matching_handles,
                    start_time, end_time), LAMBDA raw_values :
  Bind(PathsInOrder(signals, m), LAMBDA order :
    FstFormatValues(order, raw_values, fmt, matching_handles))))))

\* FstParser.get_signal_values on an open reader
FstGetSignalValues(signals, events, mask, patterns, start_time, end_time, fmt) ==
  FstGetSignalValuesWith(signals, events, mask, FstMatched(signals, patterns),
                         start_time, end_time, fmt)

(***************************************************************************)
(* parsers/vcd_parser.py                                                   *)
(***************************************************************************)
\* sig_obj.tv: the (time, value) list of the signal's identifier code
Tv(events, handle) ==
  Bind(FilterSeq(events, {i \in 1..Len(events) : events[i].handle = handle}),
       Pairs)

VcdValuesOf(sig, events, start_time, end_time) ==
  LET tv == Tv(events, sig.handle)
  IN FilterSeq(tv, {i \in 1..Len(tv) : InWindow(tv[i][1], start_time, end_time)})

\* WaveformParser.get_signal_values
VcdGetSignalValues(signals, events, patterns, start_time, end_time, fmt) ==
  LET matched == {i \in 1..Len(signals) : Matches(patterns, signals[i].path)}
      raw(i) == VcdValuesOf(signals[i], events, start_time, end_time)
      kept == {i \in matched : raw(i) # <<>>}
      keptSigs == FilterSeq(signals, kept)
      matchedSigs == FilterSeq(signals, matched)
  IN IF \E i \in matched : AnyRaise(raw(i), fmt)
     THEN QueryRaise({})
     ELSE [raised |-> FALSE,
           order |-> [k \in 1..Len(keptSigs) |-> keptSigs[k].path],
           result |-> [p \in {signals[i].path : i \in kept} |->
                         LET i == CHOOSE j \in kept : signals[j].path = p
                         IN FormatAll(raw(i), fmt)],
           warnings |-> Flatten([k \in 1..Len(matchedSigs) |->
                                   WarningsOf(matchedSigs[k].path,
                                              VcdValuesOf(matchedSigs[k], events,
                                                          start_time, end_time),
                                              fmt)]),
           mask |-> {}]

CountDotsPlusOne(s) == Cardinality({i \in 1..Len(s) : s[i] = "."}) + 1

\* str.count(".")
CountDots(s) == Cardinality({i \in 1..Len(s) : s[i] = "."})

PySliceToInclusive(s, n) == SubSeq(s, 1, IF n + 1 < Len(s) THEN n + 1 ELSE Len(s))

\* s[:n]
PySliceTo(s, n) ==
  IF n >= 0 THEN SubSeq(s, 1, IF n < Len(s) THEN n ELSE Len(s))
  ELSE SubSeq(s, 1, IF Len(s) + n > 0 THEN Len(s) + n ELSE 0)

WithHandle(sig) == sig

\* {k: v for k, v in sig.items() if k != 'handle'}
WithoutHandle(sig) == [key \in DOMAIN sig \ {"handle"} |-> sig[key]]

\* FstParser.get_signal_list
FstGetSignalList(signals, module_path, max_depth, limit) ==
  LET module_prefix == IF module_path # <<>> THEN module_path \o <<".">> ELSE <<>>
      module_depth == IF module_path # <<>> THEN CountDots(module_path) + 1 ELSE 0
      keep == {i \in 1..Len(signals) :
                 /\ ~(module_path # <<>> /\ ~StartsWith(signals[i].path, module_prefix))
                 /\ ~(/\ max_depth >= 0
                      /\ CountDots(signals[i].path) - module_depth + 1 > max_depth)}
      kept == FilterSeq(signals, keep)
      listed == [k \in 1..Len(kept) |-> WithoutHandle(kept[k])]
  IN [signals |-> IF limit > 0 THEN PySliceTo(listed, limit) ELSE listed,
      total_count |-> Len(listed)]

\* WaveformParser.get_signal_list takes no argument besides self: a call
\* that passes any argument raises TypeError
VcdGetSignalList(signals, nargs) ==
  [raised |-> nargs > 0,
   signals |-> [k \in 1..Len(signals) |->
                  [name |-> LastSegment(signals[k].path), type |-> signals[k].type,
                   size |-> signals[k].size, path |-> signals[k].path]]]

(***************************************************************************)
(* FstParser objects.  A slot of the heap holds one FstParser and the      *)
(* libfst reader context it opened; the context outlives the object when   *)
(* nothing closes it.                                                      *)
(***************************************************************************)
Slots == 1..MaxParsers

FreeSlot ==
  [alive |-> FALSE, fst_path |-> "", fst |-> "None", open |-> FALSE,
   closes |-> 0, mask |-> {}, signals |-> <<>>, start_time |-> 0, end_time |-> 0]

\* FstParser.__init__ and _load
FstParserNew(f) ==
  IF f \in {"missing", "corrupt"}
  THEN \* fstReaderOpen returned NULL
       [raised |-> TRUE, obj |-> FreeSlot]
  ELSE IF f = "trunc"
  THEN \* the reader is open, get_scopes_signals2 raises
       [raised |-> TRUE, obj |-> [FreeSlot EXCEPT !.open = TRUE]]
  ELSE [raised |-> FALSE,
        obj |-> [alive |-> TRUE, fst_path |-> f, fst |-> "ptr", open |-> TRUE,
                 closes |-> 0, mask |-> {}, signals |-> TraceOf(f).signals,
                 start_time |-> TraceOf(f).start, end_time |-> TraceOf(f).end]]

FstCloseKeepsPointer(obj) ==
  IF obj.fst # "None" /\ obj.fst # "NULL"
  THEN [obj EXCEPT !.open = FALSE, !.closes = @ + 1]
  ELSE obj

\* FstParser.close
FstClose(obj) ==
  IF obj.fst # "None" /\ obj.fst # "NULL"
  THEN [obj EXCEPT !.fst = "None", !.open = FALSE, !.closes = @ + 1]
  ELSE obj

\* FstParser.get_signal_values on the object: a closed parser passes None to
\* the reader calls, which raises as soon as a signal matched
FstObjGetSignalValues(obj, patterns, start_time, end_time, fmt) ==
  IF obj.fst = "None" /\ FstMatched(obj.signals, patterns) # {}
  THEN QueryRaise(obj.mask)
  ELSE FstGetSignalValues(obj.signals, TraceOf(obj.fst_path).events, obj.mask,
                          patterns, start_time, end_time, fmt)

\* a slot is reused once its reader is closed and the object is not current
FreeSlots == {o \in Slots : ~heap[o].open /\ o # fst_parser}

NewSlot == CHOOSE o \in FreeSlots : \A q \in FreeSlots : o <= q

OpenHandles == {o \in Slots : heap[o].open}

\* a closed parser that is not the current one is no longer referenced
Collect(h, current) ==
  [o \in Slots |->
     IF h[o].alive /\ ~h[o].open /\ o # current THEN FreeSlot ELSE h[o]]

(***************************************************************************)
(* parsers/__init__.py: the current parser of each kind                    *)
(***************************************************************************)
NoInput == [none |-> TRUE]

Idle == [op |-> "idle"]

Init ==
  /\ vcd_parser = "None"
  /\ fst_parser = 0
  /\ heap = [o \in Slots |-> FreeSlot]
  /\ input = NoInput
  /\ last = Idle

NotLoaded(kind) == [kind |-> "NotLoaded", text |-> <<"No ", kind, " file loaded">>]

get_vcd_parser_unchecked == [raised |-> FALSE, parser |-> vcd_parser]

get_vcd_parser ==
  IF vcd_parser = "None" THEN [raised |-> TRUE, parser |-> "None"]
  ELSE [raised |-> FALSE, parser |-> vcd_parser]

get_fst_parser ==
  IF fst_parser = 0 THEN [raised |-> TRUE, parser |-> 0]
  ELSE [raised |-> FALSE, parser |-> fst_parser]

set_vcd_parser(parser) == vcd_parser' = parser

set_fst_parser(parser) == fst_parser' = parser

GetVcdParser ==
  /\ last' = [op |-> "get_vcd_parser", result |-> get_vcd_parser]
  /\ UNCHANGED <<vcd_parser, fst_parser, heap, input>>

GetFstParser ==
  /\ last' = [op |-> "get_fst_parser", result |-> get_fst_parser]
  /\ UNCHANGED <<vcd_parser, fst_parser, heap, input>>

SetVcdParser(parser) ==
  /\ set_vcd_parser(parser)
  /\ last' = [op |-> "set_vcd_parser", args |-> [parser |-> parser]]
  /\ UNCHANGED <<fst_parser, heap, input>>

SetFstParser(parser) ==
  /\ parser # 0 => heap[parser].alive
  /\ set_fst_parser(parser)
  /\ heap' = Collect(heap, parser)
  /\ last' = [op |-> "set_fst_parser", args |-> [parser |-> parser]]
  /\ UNCHANGED <<vcd_parser, input>>

(***************************************************************************)
(* Direct use of the parser classes                                        *)
(***************************************************************************)
FstParserInit(f) ==
  /\ FreeSlots # {}
  /\ heap' = [heap EXCEPT ![NewSlot] = FstParserNew(f).obj]
  /\ last' = [op |-> "FstParser", args |-> [fst_path |-> f],
              result |-> [raised |-> FstParserNew(f).raised, parser |-> NewSlot]]
  /\ UNCHANGED <<vcd_parser, fst_parser, input>>

FstParserClose(o) ==
  /\ heap[o].alive
  /\ heap' = Collect([heap EXCEPT ![o] = FstClose(heap[o])], fst_parser)
  /\ last' = [op |-> "FstParser.close", args |-> [parser |-> o],
              result |-> [raised |-> FALSE, released |-> heap[o].open]]
  /\ UNCHANGED <<vcd_parser, fst_parser, input>>

FstParserGetSignalValues(o, patterns, start_time, end_time, fmt) ==
  /\ heap[o].alive
  /\ LET r == FstObjGetSignalValues(heap[o], patterns, start_time, end_time, fmt)
     IN /\ heap' = [heap EXCEPT ![o].mask = r.mask]
        /\ last' = [op |-> "FstParser.get_signal_values",
                    args |-> [parser |-> o, patterns |-> patterns,
                              start_time |-> start_time, end_time |-> end_time,
                              fmt |-> fmt],
                    result |-> r]
  /\ UNCHANGED <<vcd_parser, fst_parser, input>>

WaveformParserGetSignalValues(patterns, start_time, end_time, fmt) ==
  /\ vcd_parser # "None"
  /\ last' = [op |-> "WaveformParser.get_signal_values",
              args |-> [parser |-> vcd_parser, patterns |-> patterns,
                        start_time |-> start_time, end_time |-> end_time,
                        fmt |-> fmt],
              result |-> VcdGetSignalValues(TraceOf(vcd_parser).signals,
                                            TraceOf(vcd_parser).events,
                                            patterns, start_time, end_time, fmt)]
  /\ UNCHANGED <<vcd_parser, fst_parser, heap, input>>

(***************************************************************************)
(* tools/vcd_tools.py                                                      *)
(***************************************************************************)
\* the value lines of one signal and the count of its "more entries" line
Display(changes, limit) ==
  [shown |-> IF limit = 0 THEN changes ELSE PySliceTo(changes, limit),
   more |-> IF limit > 0 /\ Len(changes) > limit THEN Len(changes) - limit ELSE 0]

\* the text returned by a value query, after the parser call
RenderValues(kind, r, limit) ==
  IF r.raised THEN [kind |-> "Raised"]
  ELSE IF DOMAIN r.result = {} THEN [kind |-> "NoMatch"]
  ELSE [kind |-> "Values", order |-> r.order, values |-> r.result,
        warnings |-> PySliceTo(r.warnings, 10),
        more_warnings |-> IF Len(r.warnings) > 10 THEN Len(r.warnings) - 10 ELSE 0,
        lines |-> [p \in DOMAIN r.result |-> Display(r.result[p], limit)]]

LoadVcdFile(vcd_path, max_file_size_mb) ==
  LET call == [op |-> "load_vcd_file",
               args |-> [vcd_path |-> vcd_path,
                         max_file_size_mb |-> max_file_size_mb]]
      answer(res) == last' = [op |-> call.op, args |-> call.args, result |-> res]
  IN
  /\ UNCHANGED <<fst_parser, heap, input>>
  /\ IF ~Exists(vcd_path)
     THEN /\ answer([kind |-> "FileNotFound"])
          /\ UNCHANGED vcd_parser
     ELSE IF max_file_size_mb > 0 /\ SizeMB(vcd_path) > max_file_size_mb
     THEN /\ answer([kind |-> "SizeExceeded"])
          /\ UNCHANGED vcd_parser
     ELSE IF vcd_path \notin TraceFiles
     THEN \* WaveformParser(...) raised
          /\ answer([kind |-> "ErrorLoading", after_set |-> FALSE])
          /\ UNCHANGED vcd_parser
     ELSE /\ set_vcd_parser(vcd_path)
          /\ LET r == VcdGetSignalList(TraceOf(vcd_path).signals, 1)
             IN IF r.raised
                THEN answer([kind |-> "ErrorLoading", after_set |-> TRUE])
                ELSE answer([kind |-> "Loaded", signal_count |-> Len(r.signals)])

GetVcdSignals(module_path, max_depth, limit, pattern, use_regex) ==
  LET call == [op |-> "get_vcd_signals",
               args |-> [module_path |-> module_path, max_depth |-> max_depth,
                         limit |-> limit, pattern |-> pattern,
                         use_regex |-> use_regex]]
      answer(res) == last' = [op |-> call.op, args |-> call.args, result |-> res]
  IN
  /\ UNCHANGED <<vcd_parser, fst_parser, heap, input>>
  /\ IF get_vcd_parser.raised
     THEN answer(NotLoaded("VCD"))
     ELSE LET r == VcdGetSignalList(TraceOf(vcd_parser).signals, 5)
          IN IF r.raised THEN answer([kind |-> "Raised"])
             ELSE IF r.signals = <<>> THEN answer([kind |-> "NoSignals"])
             ELSE answer([kind |-> "Signals", signals |-> r.signals])

GetVcdTimeRange ==
  /\ UNCHANGED <<vcd_parser, fst_parser, heap, input>>
  /\ last' = [op |-> "get_vcd_time_range", args |-> NoInput,
              result |-> IF get_vcd_parser.raised THEN NotLoaded("VCD")
                         ELSE [kind |-> "TimeRange",
                               start |-> TraceOf(vcd_parser).start,
                               end |-> TraceOf(vcd_parser).end,
                               total |-> TraceOf(vcd_parser).end
                                           - TraceOf(vcd_parser).start]]

GetVcdSignalValuesNoWindowCheck(signal_names, start_time, end_time, fmt, limit) ==
  /\ UNCHANGED <<vcd_parser, fst_parser, heap, input>>
  /\ last' = [op |-> "get_vcd_signal_values",
              args |-> [patterns |-> signal_names, start_time |-> start_time,
                        end_time |-> end_time, fmt |-> fmt, limit |-> limit],
              result |->
                IF get_vcd_parser.raised THEN NotLoaded("VCD")
                ELSE RenderValues("VCD",
                       VcdGetSignalValues(TraceOf(vcd_parser).signals,
                                          TraceOf(vcd_parser).events,
                                          signal_names, start_time, end_time, fmt),
                       limit)]

GetVcdSignalValues(signal_names, start_time, end_time, fmt, limit) ==
  /\ UNCHANGED <<vcd_parser, fst_parser, heap, input>>
  /\ last' = [op |-> "get_vcd_signal_values",
              args |-> [patterns |-> signal_names, start_time |-> start_time,
                        end_time |-> end_time, fmt |-> fmt, limit |-> limit],
              result |->
                IF get_vcd_parser.raised THEN NotLoaded("VCD")
                ELSE IF start_time > end_time THEN [kind |-> "ValidationError"]
                ELSE RenderValues("VCD",
                       VcdGetSignalValues(TraceOf(vcd_parser).signals,
                                          TraceOf(vcd_parser).events,
                                          signal_names, start_time, end_time, fmt),
                       limit)]

(***************************************************************************)
(* The FST tools: load_fst_file, get_fst_signals, get_fst_time_range,      *)
(* get_fst_signal_values                                                   *)
(***************************************************************************)
LoadFstFile(fst_path) ==
  LET call == [op |-> "load_fst_file", args |-> [fst_path |-> fst_path]]
      answer(res) == last' = [op |-> call.op, args |-> call.args, result |-> res]
  IN
  /\ UNCHANGED <<vcd_parser, input>>
  /\ IF ~Exists(fst_path)
     THEN /\ answer([kind |-> "FileNotFound"])
          /\ UNCHANGED <<fst_parser, heap>>
     ELSE /\ FreeSlots # {}
          /\ LET new == FstParserNew(fst_path)
             IN IF new.raised
                THEN /\ heap' = [heap EXCEPT ![NewSlot] = new.obj]
                     /\ UNCHANGED fst_parser
                     /\ answer([kind |-> "ErrorLoading", after_set |-> FALSE])
                ELSE /\ heap' = Collect([heap EXCEPT ![NewSlot] = new.obj], NewSlot)
                     /\ set_fst_parser(NewSlot)
                     /\ answer([kind |-> "Loaded",
                                signal_count |->
                                  FstGetSignalList(new.obj.signals, <<>>, -1, 0)
                                    .total_count])

GetFstSignals ==
  /\ UNCHANGED <<vcd_parser, fst_parser, heap, input>>
  /\ last' = [op |-> "get_fst_signals", args |-> NoInput,
              result |->
                IF get_fst_parser.raised THEN NotLoaded("FST")
                ELSE LET r == FstGetSignalList(heap[fst_parser].signals, <<>>, -1, 0)
                     IN IF r.signals = <<>> THEN [kind |-> "NoSignals"]
                        ELSE [kind |-> "Signals", signals |-> r.signals,
                              total_count |-> r.total_count]]

GetFstTimeRange ==
  /\ UNCHANGED <<vcd_parser, fst_parser, heap, input>>
  /\ last' = [op |-> "get_fst_time_range", args |-> NoInput,
              result |-> IF get_fst_parser.raised THEN NotLoaded("FST")
                         ELSE [kind |-> "TimeRange",
                               start |-> heap[fst_parser].start_time,
                               end |-> heap[fst_parser].end_time,
                               total |-> heap[fst_parser].end_time
                                           - heap[fst_parser].start_time]]

GetFstSignalValues(signal_patterns, start_time, end_time, fmt) ==
  LET call == [op |-> "get_fst_signal_values",
               args |-> [patterns |-> signal_patterns, start_time |-> start_time,
                         end_time |-> end_time, fmt |-> fmt]]
      answer(res) == last' = [op |-> call.op, args |-> call.args, result |-> res]
  IN
  /\ UNCHANGED <<vcd_parser, fst_parser, input>>
  /\ IF get_fst_parser.raised
     THEN answer(NotLoaded("FST")) /\ UNCHANGED heap
     ELSE IF start_time > end_time
     THEN answer([kind |-> "ValidationError"]) /\ UNCHANGED heap
     ELSE LET r == FstObjGetSignalValues(heap[fst_parser], signal_patterns,
                                         start_time, end_time, fmt)
          IN /\ heap' = [heap EXCEPT ![fst_parser].mask = r.mask]
             /\ answer(RenderValues("FST", r, 0))

(***************************************************************************)
(* The server: any tool call or direct parser call, in any order           *)
(***************************************************************************)
SessionPatterns == <<<<"c","l","k">>>>

SessionToolPatterns == {SessionPatterns, <<<<"n">>, <<"C","L","K">>>>}

SessionWindows == {<<0, MaxTime>>, <<MaxTime, 0>>}

SessionFmts == {FmtBin, FmtHex, <<"o","c","t">>}

SessionFiles == {"missing", "corrupt", "trunc", "t2"}

SessionNamePatterns == {<<>>, <<"c","l","k">>}

Next ==
  \/ \E f \in SessionFiles \ {"trunc"}, m \in {0, 2} : LoadVcdFile(f, m)
  \/ \E pattern \in SessionNamePatterns, use_regex \in BOOLEAN :
       GetVcdSignals(<<>>, -1, 100, pattern, use_regex)
  \/ GetVcdTimeRange
  \/ \E ps \in SessionToolPatterns, w \in SessionWindows, fmt \in SessionFmts :
       GetVcdSignalValues(ps, w[1], w[2], fmt, 1)
  \/ \E f \in SessionFiles : LoadFstFile(f)
  \/ GetFstSignals
  \/ GetFstTimeRange
  \/ \E ps \in SessionToolPatterns, w \in SessionWindows, fmt \in SessionFmts :
       GetFstSignalValues(ps, w[1], w[2], fmt)
  \/ GetVcdParser
  \/ GetFstParser
  \/ \E parser \in {"None", "t2"} : SetVcdParser(parser)
  \/ \E parser \in {0} \cup Slots : SetFstParser(parser)
  \/ \E f \in SessionFiles : FstParserInit(f)
  \/ \E o \in Slots : FstParserClose(o)
  \/ \E o \in Slots, w \in SessionWindows :
       FstParserGetSignalValues(o, SessionPatterns, w[1], w[2], FmtBin)
  \/ \E w \in SessionWindows :
       WaveformParserGetSignalValues(SessionPatterns, w[1], w[2], FmtBin)

Spec == Init /\ [][Next]_vars

(***************************************************************************)
(* get_signal_values as a function of the trace and the query: the trace   *)
(* is loaded in both encodings and the query arguments are drawn at start  *)
(***************************************************************************)
QueryFiles == {"t1", "t2", "t3"}

InitQuery ==
  /\ \E f \in QueryFiles :
       /\ vcd_parser = f
       /\ fst_parser = 1
       /\ heap = [o \in Slots |-> IF o = 1 THEN FstParserNew(f).obj ELSE FreeSlot]
  /\ input \in [patterns : PatternLists, start_time : Times, end_time : Times,
                fmt : Fmts]
  /\ last = Idle

QueryFst ==
  FstParserGetSignalValues(fst_parser, input.patterns, input.start_time,
                           input.end_time, input.fmt)

QueryVcd ==
  WaveformParserGetSignalValues(input.patterns, input.start_time,
                                input.end_time, input.fmt)

NextQuery == QueryFst \/ QueryVcd

SpecQuery == InitQuery /\ [][NextQuery]_vars

(***************************************************************************)
(* Successive value queries on one open FST reader: each query draws its   *)
(* patterns anew, and records the process mask it found.                   *)
(***************************************************************************)
InitMask ==
  /\ vcd_parser = "None"
  /\ fst_parser = 1
  /\ \E f \in QueryFiles :
       heap = [o \in Slots |-> IF o = 1 THEN FstParserNew(f).obj ELSE FreeSlot]
  /\ input \in [start_time : Times, end_time : Times]
  /\ last = Idle

\* FstParser.get_signal_values; mask_before is the mask the call found
QueryMasked(patterns) ==
  /\ heap[fst_parser].alive
  /\ last' = [op |-> "FstParser.get_signal_values",
              args |-> [parser |-> fst_parser, patterns |-> patterns,
                        start_time |-> input.start_time,
                        end_time |-> input.end_time, fmt |-> FmtBin,
                        mask_before |-> heap[fst_parser].mask],
              result |-> FstObjGetSignalValues(heap[fst_parser], patterns,
                                               input.start_time,
                                               input.end_time, FmtBin)]
  /\ heap' = [heap EXCEPT ![fst_parser].mask = last'.result.mask]
  /\ UNCHANGED <<vcd_parser, fst_parser, input>>

\* the pattern lists of the successive queries
MaskPatternLists ==
  {<<>>, <<<<"q">>, <<"C","L","K">>>>} \cup {<<p>> : p \in PatternPool}

NextMask == \E patterns \in MaskPatternLists : QueryMasked(patterns)

SpecMask == InitMask /\ [][NextMask]_vars

(***************************************************************************)
(* A value query on a container that turns out damaged after its first k   *)
(* value changes.  fstReaderIterBlocks is a C function: it reports the      *)
(* damage by its return value, which get_signal_values does not read, or    *)
(* the binding turns it into an exception; both outcomes are modelled.      *)
(***************************************************************************)
\* get_signal_values when the iteration ends after k events of the container
FstGetSignalValuesDamaged(obj, events, patterns, start_time, end_time, fmt, outcome) ==
  Bind(FstMatched(obj.signals, patterns), LAMBDA m :
  Bind({obj.signals[i].handle : i \in m}, LAMBDA matching_handles :
    IF matching_handles = {}
    THEN [raised |-> FALSE, order |-> <<>>, result |-> EmptyDict,
          warnings |-> <<>>, mask |-> obj.mask]
    ELSE IF outcome = "raises" THEN QueryRaise(matching_handles)
    ELSE FstFormatValues(PathsInOrder(obj.signals, m),
                         FstRawValues(obj.signals,
                                      IterBlocks(events, matching_handles),
                                      m, matching_handles, start_time, end_time),
                         fmt, matching_handles)))

InitDamaged ==
  /\ vcd_parser = "None"
  /\ fst_parser = 1
  /\ \E f \in QueryFiles :
       heap = [o \in Slots |-> IF o = 1 THEN FstParserNew(f).obj ELSE FreeSlot]
  /\ input \in [patterns : PatternLists, start_time : Times, end_time : Times]
  /\ last = Idle

QueryDamaged(k, outcome) ==
  /\ heap[fst_parser].alive
  /\ k < Len(TraceOf(heap[fst_parser].fst_path).events)
  /\ last' = [op |-> "FstParser.get_signal_values",
              args |-> [parser |-> fst_parser, patterns |-> input.patterns,
                        start_time |-> input.start_time,
                        end_time |-> input.end_time, fmt |-> FmtBin,
                        damaged_after |-> k],
              result |-> FstGetSignalValuesDamaged(
                           heap[fst_parser],
                           SubSeq(TraceOf(heap[fst_parser].fst_path).events, 1, k),
                           input.patterns, input.start_time, input.end_time,
                           FmtBin, outcome)]
  /\ heap' = [heap EXCEPT ![fst_parser].mask = last'.result.mask]
  /\ UNCHANGED <<vcd_parser, fst_parser, input>>

MaxEvents == 8

NextDamaged ==
  \E k \in 0..MaxEvents, outcome \in {"raises", "returns"} : QueryDamaged(k, outcome)

SpecDamaged == InitDamaged /\ [][NextDamaged]_vars

(***************************************************************************)
(* get_vcd_signal_values as a function of the loaded trace, the query and  *)
(* the display limit                                                       *)
(***************************************************************************)
InitDisplay ==
  /\ \E f \in QueryFiles : vcd_parser = f
  /\ fst_parser = 0
  /\ heap = [o \in Slots |-> FreeSlot]
  /\ input \in [patterns : MaskPatternLists, start_time : Times,
                 end_time : Times, limit : (0 - MaxLimit)..MaxLimit]
  /\ last = Idle

NextDisplay ==
  \E fmt \in {FmtBin, FmtHex} :
    GetVcdSignalValues(input.patterns, input.start_time, input.end_time, fmt,
                       input.limit)

SpecDisplay == InitDisplay /\ [][NextDisplay]_vars

(***************************************************************************)
(* get_signal_list as a function of the trace and the filter arguments     *)
(***************************************************************************)
FstParserGetSignalListConsuming(o, module_path, max_depth, limit) ==
  /\ heap[o].alive
  /\ last' = [op |-> "FstParser.get_signal_list",
              args |-> [parser |-> o, module_path |-> module_path,
                        max_depth |-> max_depth, limit |-> limit],
              result |-> FstGetSignalList(heap[o].signals, module_path,
                                          max_depth, limit)]
  /\ heap' = [heap EXCEPT ![o].signals =
                 SubSeq(@, 1, Len(@) - FstGetSignalList(@, module_path, max_depth,
                                                        limit).total_count)]
  /\ UNCHANGED <<vcd_parser, fst_parser, input>>

FstParserGetSignalList(o, module_path, max_depth, limit) ==
  /\ heap[o].alive
  /\ last' = [op |-> "FstParser.get_signal_list",
              args |-> [parser |-> o, module_path |-> module_path,
                        max_depth |-> max_depth, limit |-> limit],
              result |-> FstGetSignalList(heap[o].signals, module_path,
                                          max_depth, limit)]
  /\ UNCHANGED <<vcd_parser, fst_parser, heap, input>>

WaveformParserGetSignalList ==
  /\ vcd_parser # "None"
  /\ last' = [op |-> "WaveformParser.get_signal_list",
              args |-> [parser |-> vcd_parser],
              result |-> VcdGetSignalList(TraceOf(vcd_parser).signals, 0)]
  /\ UNCHANGED <<vcd_parser, fst_parser, heap, input>>

ModulePaths ==
  {<<>>, <<"t","o","p">>, cpu, <<"t","o","p",".","c","p","u",".","a","l","u">>,
   <<"t","o">>, clk}

InitList ==
  /\ \E f \in TraceFiles :
       /\ vcd_parser = f
       /\ fst_parser = 1
       /\ heap = [o \in Slots |-> IF o = 1 THEN FstParserNew(f).obj ELSE FreeSlot]
  /\ input \in [module_path : ModulePaths, max_depth : -1..MaxDepth,
                limit : 0..MaxLimit]
  /\ last = Idle

ListFst ==
  FstParserGetSignalList(fst_parser, input.module_path, input.max_depth,
                         input.limit)

ListVcd == WaveformParserGetSignalList

\* FstParser.get_time_range
FstParserGetTimeRange(o) ==
  /\ heap[o].alive
  /\ last' = [op |-> "FstParser.get_time_range", args |-> [parser |-> o],
              result |-> <<heap[o].start_time, heap[o].end_time>>]
  /\ UNCHANGED <<vcd_parser, fst_parser, heap, input>>

TimeRangeFst == FstParserGetTimeRange(fst_parser)

\* the values of the signals the listing is about, over the whole trace
QueryListed ==
  FstParserGetSignalValues(fst_parser, <<input.module_path>>,
                           heap[fst_parser].start_time,
                           heap[fst_parser].end_time, FmtHex)

NextList == ListFst \/ ListVcd \/ QueryListed \/ TimeRangeFst

SpecList == InitList /\ [][NextList]_vars

(***************************************************************************)
(* format_value as a function of the raw value and the format selector     *)
(***************************************************************************)
ValueChars == {"0", "1", "x", "X", "z", "Z", "-", "_", " ", "b"}

RawValues == UNION {[1..n -> ValueChars] : n \in 0..MaxLen}

FmtSelectors ==
  {FmtBin, FmtHex, FmtDec, <<"B","I","N">>, <<"H","e","x">>, <<"D","E","C">>,
   <<"o","c","t">>, <<>>}

\* longer values of a vector signal without unknown bits
BinaryValues == UNION {[1..n -> {"0", "1"}] : n \in 0..MaxBits}

InitFormat ==
  /\ vcd_parser = "None"
  /\ fst_parser = 0
  /\ heap = [o \in Slots |-> FreeSlot]
  /\ input \in [value : RawValues \cup BinaryValues, fmt : FmtSelectors]
  /\ last = Idle

FormatValue ==
  /\ last' = [op |-> "format_value", args |-> input,
              result |-> format_value(input.value, input.fmt)]
  /\ UNCHANGED <<vcd_parser, fst_parser, heap, input>>

NextFormat == FormatValue

SpecFormat == InitFormat /\ [][NextFormat]_vars

(***************************************************************************)
(* utils/float_convert.py                                                  *)
(***************************************************************************)
VALID_FLOAT_TYPES == {"float32", "float16", "bfloat16"}

\* str.upper()
Upper(s) ==
  [i \in 1..Len(s) |->
     IF \E k \in 1..26 : LowerLetters[k] = s[i]
     THEN UpperLetters[CHOOSE k \in 1..26 : LowerLetters[k] = s[i]]
     ELSE s[i]]

Rep(c, n) == [i \in 1..n |-> c]

\* s.zfill(width): zeros on the left, after a leading sign
ZFill(s, width) ==
  IF Len(s) >= width THEN s
  ELSE IF s # <<>> /\ s[1] \in {"+", "-"}
    THEN <<s[1]>> \o Rep("0", width - Len(s)) \o Tail(s)
  ELSE Rep("0", width - Len(s)) \o s

\* _normalize_hex
normalize_hex(hex_value) ==
  Bind(Strip(hex_value), LAMBDA s :
    Upper(IF StartsWith(Lower(s), <<"0","x">>) THEN Drop(s, 2) ELSE s))

\* _normalize_bin
normalize_bin(bin_value) ==
  Bind(Strip(bin_value), LAMBDA s :
    IF StartsWith(Lower(s), <<"0","b">>) THEN Drop(s, 2)
    ELSE IF StartsWith(Lower(s), <<"b">>) THEN Drop(s, 1)
    ELSE s)

HexChars ==
  {"0","1","2","3","4","5","6","7","8","9","A","B","C","D","E","F",
   "a","b","c","d","e","f"}

\* bytes.fromhex: pairs of hex digits, whitespace allowed between the pairs;
\* a byte is kept as its two digits
RECURSIVE FromHex(_, _)
FromHex(s, acc) ==
  IF s = <<>> THEN [ok |-> TRUE, bytes |-> acc]
  ELSE IF s[1] = " " THEN FromHex(Tail(s), acc)
  ELSE IF Len(s) >= 2 /\ s[1] \in HexChars /\ s[2] \in HexChars
    THEN FromHex(Drop(s, 2), Append(acc, Upper(<<s[1], s[2]>>)))
  ELSE [ok |-> FALSE, bytes |-> <<>>]

\* the bits of a byte string, most significant first
BitsOfBytes(bytes) ==
  [i \in 1..(8 * Len(bytes)) |->
     IF (((CHOOSE d \in 1..16 :
             DigitChars[d] = bytes[((i - 1) \div 8) + 1][(((i - 1) % 8) \div 4) + 1])
          - 1) \div (2 ^ (3 - ((i - 1) % 4)))) % 2 = 1
     THEN "1" ELSE "0"]

FloatRaise(e) ==
  [raised |-> TRUE, error |-> e,
   value |-> [sign |-> "0", exponent |-> 0 - 1, mantissa |-> 0 - 1]]

\* struct.unpack(">f" / ">e", bytes.fromhex(...)), p the outcome of fromhex:
\* the IEEE 754 fields of the big-endian bit pattern
Unpack(p, size, ebits) ==
  IF ~p.ok THEN FloatRaise("ValueError")
  ELSE IF Len(p.bytes) # size THEN FloatRaise("struct.error")
  ELSE Bind(BitsOfBytes(p.bytes), LAMBDA bits :
         [raised |-> FALSE, error |-> "None",
          value |-> [sign |-> bits[1],
                     exponent |-> BinDigitsValue(SubSeq(bits, 2, 1 + ebits), 0),
                     mantissa |-> BinDigitsValue(SubSeq(bits, 2 + ebits, Len(bits)),
                                                 0)]])

\* hex_to_float_value after _normalize_hex
HexToFloatNormalized(h, float_type) ==
  IF float_type = "float32" THEN Unpack(FromHex(ZFill(h, 8), <<>>), 4, 8)
  ELSE IF float_type = "float16" THEN Unpack(FromHex(ZFill(h, 4), <<>>), 2, 5)
  ELSE Unpack(FromHex(ZFill(h, 4) \o <<"0","0","0","0">>, <<>>), 4, 8)

hex_to_float_value(hex_value, float_type) ==
  IF float_type \notin VALID_FLOAT_TYPES THEN FloatRaise("ValueError")
  ELSE HexToFloatNormalized(normalize_hex(hex_value), float_type)

expected_bits(float_type) == IF float_type = "float32" THEN 32 ELSE 16

\* int(value, 2) of a string of any length: the sign and the digits
BigDigits(s, neg) ==
  IF BinDigitsOk(s)
  THEN [ok |-> TRUE, neg |-> neg, bits |-> SelectSeq(s, LAMBDA c : c # "_")]
  ELSE [ok |-> FALSE, neg |-> FALSE, bits |-> <<>>]

BigPrefixed(s, neg) ==
  IF s # <<>> /\ s[1] = "_" THEN BigDigits(<<>>, neg)
  ELSE IF Len(s) >= 2 /\ s[1] = "0" /\ s[2] \in {"b", "B"}
  THEN BigDigits(Drop(s, IF Len(s) >= 3 /\ s[3] = "_" THEN 3 ELSE 2), neg)
  ELSE BigDigits(s, neg)

BigSigned(s) ==
  IF s # <<>> /\ s[1] \in {"+", "-"}
  THEN BigPrefixed(Tail(s), s[1] = "-")
  ELSE BigPrefixed(s, FALSE)

IntBase2Big(value) == BigSigned(Strip(value))

RECURSIVE StripZeros(_)
StripZeros(bits) ==
  IF bits # <<>> /\ bits[1] = "0" THEN StripZeros(Tail(bits)) ELSE bits

\* the hex digits of a magnitude given by its significant bits
HexOfPadded(b) ==
  [i \in 1..(Len(b) \div 4) |->
     DigitChars[BinDigitsValue(SubSeq(b, 4 * i - 3, 4 * i), 0) + 1]]

HexOfSignificant(b) ==
  IF b = <<>> THEN <<"0">>
  ELSE HexOfPadded(Rep("0", (4 - (Len(b) % 4)) % 4) \o b)

\* format(int_value, "0<width>X")
FormatX(neg, b, width) ==
  ZFill((IF neg /\ b # <<>> THEN <<"-">> ELSE <<>>) \o HexOfSignificant(b), width)

\* bin_to_float_value after zfill, p the outcome of int(bin_value, 2)
BinToFloatParsed(p, float_type) ==
  IF ~p.ok THEN FloatRaise("ValueError")
  ELSE hex_to_float_value(
         FormatX(p.neg, StripZeros(p.bits), expected_bits(float_type) \div 4),
         float_type)

bin_to_float_value(bin_value, float_type) ==
  IF float_type \notin VALID_FLOAT_TYPES THEN FloatRaise("ValueError")
  ELSE BinToFloatParsed(
         IntBase2Big(ZFill(normalize_bin(bin_value), expected_bits(float_type))),
         float_type)

(***************************************************************************)
(* The conversions as functions of the input string and the float kind.    *)
(* An input is a prefix, up to MaxPad extra characters and a digit string. *)
(***************************************************************************)
MaxPad == 2

\* 1.0 as float16, in both letter cases, 1.0 as float32, -1.0 as bfloat16,
\* short inputs and inputs that are no digits
HexCores ==
  {<<"3","C","0","0">>, <<"3","c","0","0">>,
   <<"3","F","8","0","0","0","0","0">>, <<"B","F","8","0">>,
   <<"1">>, <<"1","2","3">>, <<"G">>, <<>>}

\* 1.0 as float16 and as float32, -1.0 as float16, short and malformed inputs
BinCores ==
  {<<"0","0","1","1","1","1">> \o Rep("0", 10),
   <<"0","0","1","1","1","1","1","1","1">> \o Rep("0", 23),
   <<"1","0","1","1","1","1">> \o Rep("0", 10),
   <<"1">>, <<"1","_","0">>, <<"2">>, <<>>}

FloatInputs ==
  {p \o z \o c : p \in {<<>>, <<"0","x">>, <<"0","X">>, <<"x">>, <<"X">>},
                 z \in UNION {[1..n -> {"0", "1", " "}] : n \in 0..MaxPad},
                 c \in HexCores}
    \cup
  {p \o z \o c : p \in {<<>>, <<"0","b">>, <<"0","B">>, <<"b">>, <<"B">>},
                 z \in UNION {[1..n -> {"0", "1", " "}] : n \in 0..MaxPad},
                 c \in BinCores}

InitFloat ==
  /\ vcd_parser = "None"
  /\ fst_parser = 0
  /\ heap = [o \in Slots |-> FreeSlot]
  /\ input \in [value : FloatInputs,
                float_type : VALID_FLOAT_TYPES \cup {"float64"}]
  /\ last = Idle

HexToFloat ==
  /\ last' = [op |-> "hex_to_float_value", args |-> input,
              result |-> hex_to_float_value(input.value, input.float_type)]
  /\ UNCHANGED <<vcd_parser, fst_parser, heap, input>>

BinToFloat ==
  /\ last' = [op |-> "bin_to_float_value", args |-> input,
              result |-> bin_to_float_value(input.value, input.float_type)]
  /\ UNCHANGED <<vcd_parser, fst_parser, heap, input>>

NextFloat == HexToFloat \/ BinToFloat

SpecFloat == InitFloat /\ [][NextFloat]_vars

(***************************************************************************)
(* Properties                                                              *)
(***************************************************************************)
VcdQueryOps == {"get_vcd_signals", "get_vcd_time_range", "get_vcd_signal_values"}

FstQueryOps == {"get_fst_signals", "get_fst_time_range", "get_fst_signal_values"}

ToolValueOps == {"get_vcd_signal_values", "get_fst_signal_values"}

ParserValueOps == {"FstParser.get_signal_values", "WaveformParser.get_signal_values"}

\* C1: when the current FST parser is replaced (by another parser or by
\* none), the reader handle of the previous one is closed.
C1_ReplaceClosesPrevious ==
  [][(fst_parser # 0 /\ fst_parser' # fst_parser) => ~heap'[fst_parser].open]_vars

\* C2: with no trace of a kind current, every query tool of that kind answers
\* NotLoaded ("No K file loaded"), whatever the other kind's state; the
\* accessor raises exactly when nothing is set and otherwise returns the parser.
C2_NotLoaded ==
  /\ (last.op \in VcdQueryOps /\ vcd_parser = "None")
       => last.result = [kind |-> "NotLoaded", text |-> <<"No ", "VCD", " file loaded">>]
  /\ (last.op \in FstQueryOps /\ fst_parser = 0)
       => last.result = [kind |-> "NotLoaded", text |-> <<"No ", "FST", " file loaded">>]
  /\ last.op = "get_vcd_parser"
       => /\ last.result.raised <=> vcd_parser = "None"
          /\ ~last.result.raised => last.result.parser = vcd_parser
  /\ last.op = "get_fst_parser"
       => /\ last.result.raised <=> fst_parser = 0
          /\ ~last.result.raised => last.result.parser = fst_parser

C2_Witness ==
  /\ last.op = "get_fst_signal_values"
  /\ fst_parser = 0
  /\ vcd_parser # "None"
  /\ last.result.kind = "NotLoaded"

Inverted == last.args.start_time > last.args.end_time

QueryTrace == TraceOf(vcd_parser)

PathsOf(trace) == {trace.signals[i].path : i \in 1..Len(trace.signals)}

HandleOf(trace, path) ==
  trace.signals[CHOOSE i \in 1..Len(trace.signals) : trace.signals[i].path = path]
    .handle

\* path contains one of the patterns as a substring, letter case ignored
ContainsAnyPattern(patterns, path) ==
  \E k \in 1..Len(patterns) :
    \E i \in 0..(Len(path) - Len(patterns[k])) :
      \A j \in 1..Len(patterns[k]) :
        \/ path[i + j] = patterns[k][j]
        \/ \E n \in 1..26 :
             {path[i + j], patterns[k][j]} = {UpperLetters[n], LowerLetters[n]}

IsValueResult == last.op \in ParserValueOps /\ ~last.result.raised

\* C4: the keys of an FST value-query result are exactly the signals whose
\* path contains a pattern case-insensitively; a VCD result has no key that
\* matches no pattern.
C4_SelectsMatchingSignals ==
  /\ (last.op = "FstParser.get_signal_values" /\ ~last.result.raised)
       => DOMAIN last.result.result =
            {p \in PathsOf(QueryTrace) : ContainsAnyPattern(last.args.patterns, p)}
  /\ (last.op = "WaveformParser.get_signal_values" /\ ~last.result.raised)
       => \A p \in DOMAIN last.result.result :
            ContainsAnyPattern(last.args.patterns, p)

C4_Witness ==
  /\ last.op = "FstParser.get_signal_values"
  /\ last.args.patterns = <<<<"C","L","K">>>>
  /\ ~last.result.raised
  /\ DOMAIN last.result.result = {top_clk}
  /\ top_rst \in PathsOf(QueryTrace)

\* every change of the signal's facility, as (time, rendered value)
History(trace, path, fmt) ==
  LET h == HandleOf(trace, path)
      es == FilterSeq(trace.events,
                      {i \in 1..Len(trace.events) : trace.events[i].handle = h})
  IN [i \in 1..Len(es) |-> <<es[i].time, format_value(es[i].value, fmt).formatted>>]

\* the changes of the signal with start_time <= t <= end_time
HistoryInWindow(trace, path, fmt, start_time, end_time) ==
  LET hs == History(trace, path, fmt)
  IN FilterSeq(hs, {i \in 1..Len(hs) : start_time <= hs[i][1] /\ hs[i][1] <= end_time})

\* C5: for every signal of a value-query result, the changes returned are
\* exactly the signal's changes with start_time <= t <= end_time.
C5_ExactlyWindowChanges ==
  IsValueResult =>
    \A p \in DOMAIN last.result.result :
      last.result.result[p] =
        HistoryInWindow(QueryTrace, p, last.args.fmt,
                        last.args.start_time, last.args.end_time)

RECURSIVE IsSubsequence(_, _)
IsSubsequence(a, b) ==
  IF a = <<>> THEN TRUE
  ELSE IF b = <<>> THEN FALSE
  ELSE IF a[1] = b[1] THEN IsSubsequence(Tail(a), Tail(b))
  ELSE IsSubsequence(a, Tail(b))

\* C6: each signal's list is in non-decreasing time order and keeps the
\* container's delivery order: it is a subsequence of the signal's rendered
\* history, so nothing is reordered, merged or duplicated.
C6_ChronologicalOrder ==
  IsValueResult =>
    \A p \in DOMAIN last.result.result :
      LET l == last.result.result[p]
      IN /\ \A i \in 1..(Len(l) - 1) : l[i][1] <= l[i + 1][1]
         /\ IsSubsequence(l, History(QueryTrace, p, last.args.fmt))

C6_Witness ==
  /\ IsValueResult
  /\ last.op = "FstParser.get_signal_values"
  /\ \E p \in DOMAIN last.result.result :
       /\ Len(last.result.result[p]) >= 3
       /\ last.result.result[p][1][1] = last.result.result[p][2][1]
       /\ last.result.result[p][1][2] # last.result.result[p][2][2]

\* C7: for the same trace, patterns, window and format the FST parser and
\* the VCD parser return the same mapping and the same warnings.
C7_SameContract ==
  last.op = "FstParser.get_signal_values" =>
    LET v == VcdGetSignalValues(QueryTrace.signals, QueryTrace.events,
                                last.args.patterns, last.args.start_time,
                                last.args.end_time, last.args.fmt)
    IN /\ last.result.raised = v.raised
       /\ last.result.result = v.result
       /\ last.result.warnings = v.warnings

HasUnknown(value) == \E i \in 1..Len(value) : value[i] \in {"x", "X", "z", "Z"}

PureBinary(value) == \A i \in 1..Len(value) : value[i] \in {"0", "1"}

IsFormatCall == last.op = "format_value"

\* C8: a raw value with x or z in any case is rendered by hex and dec as
\* "b" + raw with a warning, and by bin as "b" + raw without a warning.
C8_UnknownFallsBack ==
  (IsFormatCall /\ HasUnknown(last.args.value)) =>
    /\ last.args.fmt \in {FmtHex, FmtDec}
         => /\ ~last.result.raised
            /\ last.result.formatted = <<"b">> \o last.args.value
            /\ last.result.warning # NoWarning
    /\ last.args.fmt = FmtBin
         => /\ ~last.result.raised
            /\ last.result.formatted = <<"b">> \o last.args.value
            /\ last.result.warning = NoWarning

C8_Witness ==
  /\ IsFormatCall
  /\ last.args.value = <<"1", "Z", "x">>
  /\ last.args.fmt = FmtDec
  /\ last.result.formatted = <<"b", "1", "Z", "x">>
  /\ last.result.warning.reason = "contains x/z states"

\* C9 as stated: a string made only of 0 and 1, the empty string included,
\* gets no warning under bin, hex and dec.
C9_Original ==
  (/\ IsFormatCall
   /\ PureBinary(last.args.value)
   /\ last.args.fmt \in {FmtBin, FmtHex, FmtDec})
    => last.result.warning = NoWarning

\* C9 amended: a non-empty string made only of 0 and 1 gets no warning under
\* bin, hex and dec.
C9_PureBinaryNoWarning ==
  (/\ IsFormatCall
   /\ last.args.value # <<>>
   /\ PureBinary(last.args.value)
   /\ last.args.fmt \in {FmtBin, FmtHex, FmtDec})
    => /\ ~last.result.raised
       /\ last.result.warning = NoWarning

C9_Witness ==
  /\ IsFormatCall
  /\ last.args.value = <<"0", "1", "1">>
  /\ last.args.fmt = FmtHex
  /\ last.result.formatted = <<"0", "x", "3">>
  /\ last.result.warning = NoWarning

\* C10: a raw value with any character other than 0 and 1 is rendered by hex
\* and dec as "b" + raw with a warning, never as a hex or decimal numeral.
C10_NonBinaryFallsBack ==
  (/\ IsFormatCall
   /\ ~PureBinary(last.args.value)
   /\ last.args.fmt \in {FmtHex, FmtDec})
    => /\ last.result.formatted = <<"b">> \o last.args.value
       /\ last.result.warning # NoWarning

RECURSIVE UnsignedBinary(_)
\* the number a string of 0 and 1 denotes, most significant bit first
UnsignedBinary(bits) ==
  IF bits = <<>> THEN 0
  ELSE 2 * UnsignedBinary(SubSeq(bits, 1, Len(bits) - 1))
         + (IF bits[Len(bits)] = "1" THEN 1 ELSE 0)

\* the value of one digit character, -1 for any other character
DigitValue(c) ==
  IF \E n \in 1..16 : <<"0","1","2","3","4","5","6","7","8","9",
                        "A","B","C","D","E","F">>[n] = c
  THEN (CHOOSE n \in 1..16 : <<"0","1","2","3","4","5","6","7","8","9",
                               "A","B","C","D","E","F">>[n] = c) - 1
  ELSE -1

RECURSIVE NumeralValue(_, _)
\* the number a numeral denotes in the base, -1 when it is not a numeral
\* of the base
NumeralValue(ds, base) ==
  IF ds = <<>> THEN 0
  ELSE LET d == DigitValue(ds[Len(ds)])
           rest == NumeralValue(SubSeq(ds, 1, Len(ds) - 1), base)
       IN IF d < 0 \/ d >= base \/ rest < 0 THEN -1 ELSE base * rest + d

\* ds is the numeral of n in the base without leading zero padding
IsNumeralOf(ds, n, base) ==
  /\ ds # <<>>
  /\ Len(ds) > 1 => ds[1] # "0"
  /\ NumeralValue(ds, base) = n

\* C11: for a non-empty string of 0 and 1, hex gives "0x" and the uppercase
\* hexadecimal numeral of its unsigned value without padding, dec gives the
\* decimal numeral of that value without prefix.
C11_HexDecRendering ==
  (IsFormatCall /\ last.args.value # <<>> /\ PureBinary(last.args.value)) =>
    /\ last.args.fmt = FmtHex
         => /\ ~last.result.raised
            /\ Len(last.result.formatted) >= 3
            /\ SubSeq(last.result.formatted, 1, 2) = <<"0", "x">>
            /\ IsNumeralOf(SubSeq(last.result.formatted, 3,
                                   Len(last.result.formatted)),
                            UnsignedBinary(last.args.value), 16)
    /\ last.args.fmt = FmtDec
         => /\ ~last.result.raised
            /\ IsNumeralOf(last.result.formatted,
                            UnsignedBinary(last.args.value), 10)

C11_Witness ==
  /\ IsFormatCall
  /\ last.args.value = <<"0","0","0","0","1","0","1","0">>
  /\ last.args.fmt = FmtHex
  /\ last.result.formatted = <<"0", "x", "A">>

\* a and b are equal up to the case of their letters
EqualsIgnoringCase(a, b) ==
  /\ Len(a) = Len(b)
  /\ \A j \in 1..Len(a) :
       \/ a[j] = b[j]
       \/ \E n \in 1..26 : {a[j], b[j]} = {UpperLetters[n], LowerLetters[n]}

\* C12: a selector that is bin, hex or dec up to letter case behaves as the
\* lower-case selector; for any other selector format_value raises, whatever
\* the raw value.
C12_SelectorFolding ==
  IsFormatCall =>
    /\ \A f \in {FmtBin, FmtHex, FmtDec} :
         EqualsIgnoringCase(last.args.fmt, f)
           => /\ ~last.result.raised
              /\ last.result = format_value(last.args.value, f)
    /\ (\A f \in {FmtBin, FmtHex, FmtDec} : ~EqualsIgnoringCase(last.args.fmt, f))
         => last.result.raised

C12_Witness ==
  /\ IsFormatCall
  /\ last.args.fmt = <<"H","e","x">>
  /\ last.args.value = <<"1","0","1">>
  /\ last.result.formatted = <<"0", "x", "5">>

IsListCall == last.op = "FstParser.get_signal_list"

\* the signal table of the trace the listing specification loaded
Table == TraceOf(vcd_parser).signals

\* the number of dot-separated segments of a path, 0 for the empty path
SegmentCount(path) ==
  IF path = <<>> THEN 0
  ELSE Len(SelectSeq(path, LAMBDA c : c = ".")) + 1

\* path lies under the module: it is the module path, a dot, and more
UnderModule(path, module_path) ==
  \/ module_path = <<>>
  \/ /\ Len(path) > Len(module_path)
     /\ \A j \in 1..Len(module_path) : path[j] = module_path[j]
     /\ path[Len(module_path) + 1] = "."

WithinDepth(path, module_path, max_depth) ==
  max_depth >= 0 => SegmentCount(path) - SegmentCount(module_path) <= max_depth

\* the table indices of the signals that pass both filters
Passing(module_path, max_depth) ==
  {i \in 1..Len(Table) :
     /\ UnderModule(Table[i].path, module_path)
     /\ WithinDepth(Table[i].path, module_path, max_depth)}

\* the k-th smallest element of a set of indices
KthOf(S, k) == CHOOSE i \in S : Cardinality({j \in S : j < i}) = k - 1

\* C13: total_count is the number of signals passing the filters, the list
\* is the first `limit` of them in table order (all of them when limit is 0).
C13_ListAndTotalCount ==
  IsListCall =>
    LET passing == Passing(last.args.module_path, last.args.max_depth)
        total == Cardinality(passing)
        list == last.result.signals
    IN /\ last.result.total_count = total
       /\ Len(list) = IF last.args.limit > 0 /\ last.args.limit < total
                      THEN last.args.limit ELSE total
       /\ \A k \in 1..Len(list) :
            /\ list[k].path = Table[KthOf(passing, k)].path
            /\ list[k].name = Table[KthOf(passing, k)].name
            /\ list[k].size = Table[KthOf(passing, k)].size

C13_Witness ==
  /\ IsListCall
  /\ last.args.limit = 2
  /\ last.args.module_path = <<"t","o","p">>
  /\ last.result.total_count = 4
  /\ Len(last.result.signals) = 2
  /\ last.result.signals[2].path = cpu_pc

\* C14: with a non-empty module_path only signals whose path is module_path,
\* a dot and more are listed, and without a depth limit all of them are
\* counted; with an empty module_path and no depth limit every signal is.
C14_ModulePrefix ==
  IsListCall =>
    /\ \A k \in 1..Len(last.result.signals) :
         UnderModule(last.result.signals[k].path, last.args.module_path)
    /\ last.args.max_depth < 0 =>
         last.result.total_count =
           Cardinality({i \in 1..Len(Table) :
                          UnderModule(Table[i].path, last.args.module_path)})
    /\ (last.args.max_depth < 0 /\ last.args.module_path = <<>>) =>
         last.result.total_count = Len(Table)

C14_Witness ==
  /\ IsListCall
  /\ last.args.module_path = cpu
  /\ last.args.max_depth = -1
  /\ last.args.limit = 0
  /\ Len(Table) = 5
  /\ last.result.total_count = 2
  /\ last.result.signals[1].path = cpu_pc
  /\ last.result.signals[2].path = cpu_alu_y

\* C15: with max_depth >= 0 a signal under module_path is counted exactly
\* when its segment count minus that of module_path is at most max_depth,
\* and nothing deeper is listed; a negative max_depth excludes nothing.
C15_RelativeDepth ==
  IsListCall =>
    /\ last.result.total_count =
         Cardinality({i \in 1..Len(Table) :
            /\ UnderModule(Table[i].path, last.args.module_path)
            /\ \/ last.args.max_depth < 0
               \/ SegmentCount(Table[i].path)
                    - SegmentCount(last.args.module_path) <= last.args.max_depth})
    /\ last.args.max_depth >= 0 =>
         \A k \in 1..Len(last.result.signals) :
           SegmentCount(last.result.signals[k].path)
             - SegmentCount(last.args.module_path) <= last.args.max_depth

C15_Witness ==
  /\ IsListCall
  /\ last.args.module_path = cpu
  /\ last.args.max_depth = 1
  /\ last.args.limit = 0
  /\ Len(Table) = 5
  /\ last.result.total_count = 1
  /\ last.result.signals[1].path = cpu_pc

\* C16: on a current VCD trace get_vcd_signals lists the signals whose path
\* or name matches the pattern (as a substring when the regex flag is off),
\* and every signal when the pattern is empty.
C16_PatternFilter ==
  (last.op = "get_vcd_signals" /\ vcd_parser # "None") =>
    /\ last.result.kind \in {"Signals", "NoSignals"}
    /\ last.result.kind = "Signals" =>
         /\ last.args.pattern = <<>> =>
              Len(last.result.signals) = Len(TraceOf(vcd_parser).signals)
         /\ ~last.args.use_regex =>
              \A k \in 1..Len(last.result.signals) :
                ContainsAnyPattern(<<last.args.pattern>>,
                                   last.result.signals[k].path)

\* C17: loading an existing, well-formed VCD file within the size limit
\* reports success with the number of signals of the trace, and the trace
\* becomes current.
C17_LoadVcdSucceeds ==
  (/\ last.op = "load_vcd_file"
   /\ last.args.vcd_path \in TraceFiles
   /\ last.args.max_file_size_mb = 0)
    => /\ last.result.kind = "Loaded"
       /\ last.result.signal_count = Len(TraceOf(last.args.vcd_path).signals)
       /\ vcd_parser = last.args.vcd_path

\* the characters of paths and rendered values
TextChars ==
  {LowerLetters[n] : n \in 1..26} \cup {UpperLetters[n] : n \in 1..26}
    \cup {DigitChars[n] : n \in 1..16} \cup {".", "-", "_", " "}

\* C18: no record of a signal list has a 'handle' entry, whatever the
\* filter arguments; the keys of a value-query result are signal paths and
\* its values are (time, text) pairs, never a handle.
C18_HandleNotExposed ==
  /\ (last.op \in {"FstParser.get_signal_list", "WaveformParser.get_signal_list"}
       /\ ~(last.op = "WaveformParser.get_signal_list" /\ last.result.raised))
       => \A k \in 1..Len(last.result.signals) :
            DOMAIN last.result.signals[k] = {"name", "type", "size", "path"}
  /\ IsValueResult
       => /\ DOMAIN last.result.result \subseteq PathsOf(QueryTrace)
          /\ \A p \in DOMAIN last.result.result :
               \A k \in 1..Len(last.result.result[p]) :
                 /\ DOMAIN last.result.result[p][k] = 1..2
                 /\ \E i \in 1..Len(QueryTrace.events) :
                      QueryTrace.events[i].time = last.result.result[p][k][1]
                 /\ last.result.result[p][k][2] \in Seq(TextChars)

C18_Witness ==
  /\ IsListCall
  /\ last.args.module_path = <<"t","o","p">>
  /\ last.args.max_depth = 2
  /\ Len(last.result.signals) = 3
  /\ DOMAIN last.result.signals[1] = {"name", "type", "size", "path"}
  /\ \E i \in 1..Len(Table) : Table[i].handle = 3

\* the times of the warnings that name the path, in list order
WarningTimes(warnings, path) ==
  LET ws == SelectSeq(warnings, LAMBDA w : w.path = path)
  IN [k \in 1..Len(ws) |-> ws[k].time]

\* the times of the entries of a signal that are rendered as "b" + raw
FallbackTimes(entries) ==
  LET fs == SelectSeq(entries, LAMBDA e : e[2] # <<>> /\ e[2][1] = "b")
  IN [k \in 1..Len(fs) |-> fs[k][1]]

\* C19: with hex or dec the warnings are, signal by signal, one per returned
\* value that fell back to binary, naming its path and time, and nothing
\* else; with bin there is no warning; the query returns in all three cases.
C19_OneWarningPerFallback ==
  (last.op \in ParserValueOps /\ last.args.fmt \in {FmtBin, FmtHex, FmtDec}) =>
    /\ ~last.result.raised
    /\ last.args.fmt = FmtBin => last.result.warnings = <<>>
    /\ last.args.fmt \in {FmtHex, FmtDec} =>
         /\ \A k \in 1..Len(last.result.warnings) :
              /\ last.result.warnings[k].path \in DOMAIN last.result.result
              /\ last.result.warnings[k].warning # NoWarning
         /\ \A p \in DOMAIN last.result.result :
              WarningTimes(last.result.warnings, p)
                = FallbackTimes(last.result.result[p])

C19_Witness ==
  /\ last.op = "FstParser.get_signal_values"
  /\ last.args.fmt = FmtDec
  /\ ~last.result.raised
  /\ top_cnt \in DOMAIN last.result.result
  /\ Len(last.result.result[top_cnt]) = 3
  /\ WarningTimes(last.result.warnings, top_cnt) = <<2, 3>>
  /\ top_clk \in DOMAIN last.result.result
  /\ WarningTimes(last.result.warnings, top_clk) = <<>>

\* C20: close never raises and leaves the parser without a handle; on an
\* open parser it releases the handle, once; on a closed parser it changes
\* nothing, so no handle is ever released a second time.
C20_CloseIdempotent ==
  [][\A o \in Slots :
       (last'.op = "FstParser.close" /\ last'.args.parser = o) =>
         /\ ~last'.result.raised
         /\ ~heap'[o].open
         /\ heap'[o].fst = "None"
         /\ \A q \in Slots : heap'[q].closes <= 1
         /\ IF heap[o].open
            THEN /\ last'.result.released
                 /\ o = fst_parser => heap'[o].closes = heap[o].closes + 1
            ELSE /\ ~last'.result.released
                 /\ heap' = heap]_vars

C20_Witness ==
  /\ last.op = "FstParser.close"
  /\ last.args.parser = fst_parser
  /\ ~last.result.released
  /\ ~last.result.raised
  /\ heap[fst_parser].closes = 1
  /\ heap[fst_parser].fst = "None"

\* C21: no query changes the signal table or the time bounds of a loaded
\* trace, and after any sequence of queries get_signal_list and
\* get_time_range return what they return right after the load.
C21_ReadOnlyTrace ==
  /\ [][\A o \in Slots :
          heap[o].alive =>
            /\ heap'[o].signals = heap[o].signals
            /\ heap'[o].start_time = heap[o].start_time
            /\ heap'[o].end_time = heap[o].end_time]_vars
  /\ [](IsListCall =>
          last.result =
            FstGetSignalList(FstParserNew(heap[last.args.parser].fst_path).obj.signals,
                             last.args.module_path, last.args.max_depth,
                             last.args.limit))
  /\ [](last.op = "FstParser.get_time_range" =>
          last.result =
            <<FstParserNew(heap[last.args.parser].fst_path).obj.start_time,
              FstParserNew(heap[last.args.parser].fst_path).obj.end_time>>)

C21_Witness ==
  /\ IsListCall
  /\ last.args.module_path = <<>>
  /\ last.args.limit = 0
  /\ last.args.max_depth = -1
  /\ heap[fst_parser].mask = {1, 2, 3, 4, 5}
  /\ Len(last.result.signals) = 5

\* the spellings of a digit string: a prefix, then digits of the base only
UnprefixedHex(v) ==
  IF StartsWith(Lower(v), <<"0","x">>) THEN Drop(v, 2)
  ELSE IF StartsWith(Lower(v), <<"x">>) THEN Drop(v, 1)
  ELSE v

UnprefixedBin(v) ==
  IF StartsWith(Lower(v), <<"0","b">>) THEN Drop(v, 2)
  ELSE IF StartsWith(Lower(v), <<"b">>) THEN Drop(v, 1)
  ELSE v

IsHexDigits(d) == d # <<>> /\ \A i \in 1..Len(d) : d[i] \in HexChars

IsBinDigits(d) == d # <<>> /\ \A i \in 1..Len(d) : d[i] \in {"0", "1"}

IsHexCall ==
  /\ last.op = "hex_to_float_value"
  /\ last.args.float_type \in VALID_FLOAT_TYPES
  /\ IsHexDigits(UnprefixedHex(last.args.value))

IsBinCall ==
  /\ last.op = "bin_to_float_value"
  /\ last.args.float_type \in VALID_FLOAT_TYPES
  /\ IsBinDigits(UnprefixedBin(last.args.value))

\* C22: a hex input spelled with the prefix 0x, x or none, and a binary input
\* spelled with the prefix 0b, b or none, in either letter case, converts to
\* the value the unprefixed digits convert to.
C22_PrefixInsensitive ==
  /\ IsHexCall =>
       last.result = hex_to_float_value(UnprefixedHex(last.args.value),
                                        last.args.float_type)
  /\ IsBinCall =>
       last.result = bin_to_float_value(UnprefixedBin(last.args.value),
                                        last.args.float_type)

\* C23: an input with more digits after its prefix than the kind is wide (8
\* hex digits or 32 bits for float32, 4 hex digits or 16 bits for the 16-bit
\* kinds) is rejected with an error; a shorter one converts as its digits
\* left-padded with zeros to the full width.  (The hex spelling with the bare
\* prefix x is the matter of C22 and is left out here.)
C23_OverlongRejected ==
  /\ (IsHexCall /\ ~StartsWith(Lower(last.args.value), <<"x">>)) =>
       IF Len(UnprefixedHex(last.args.value)) > expected_bits(last.args.float_type) \div 4
       THEN last.result.raised
       ELSE last.result =
              hex_to_float_value(
                Rep("0", (expected_bits(last.args.float_type) \div 4)
                           - Len(UnprefixedHex(last.args.value)))
                  \o UnprefixedHex(last.args.value),
                last.args.float_type)
  /\ IsBinCall =>
       IF Len(UnprefixedBin(last.args.value)) > expected_bits(last.args.float_type)
       THEN last.result.raised
       ELSE last.result =
              bin_to_float_value(
                Rep("0", expected_bits(last.args.float_type)
                           - Len(UnprefixedBin(last.args.value)))
                  \o UnprefixedBin(last.args.value),
                last.args.float_type)

IsMaskedQuery ==
  /\ last.op = "FstParser.get_signal_values"
  /\ "mask_before" \in DOMAIN last.args
  /\ FstMatched(heap[fst_parser].signals, last.args.patterns) # {}

\* C24: a value query on an open FST reader that matches a signal leaves the
\* process mask equal to the handles of the signals it matched, whatever mask
\* the earlier queries left, and returns what the same query returns on a
\* freshly opened reader.
C24_MaskIsQueryHandles ==
  IsMaskedQuery =>
    /\ heap[fst_parser].mask =
         {heap[fst_parser].signals[i].handle :
            i \in FstMatched(heap[fst_parser].signals, last.args.patterns)}
    /\ last.result =
         FstObjGetSignalValues(FstParserNew(heap[fst_parser].fst_path).obj,
                               last.args.patterns, last.args.start_time,
                               last.args.end_time, last.args.fmt)

\* a query that found the mask of an earlier query selecting other signals
C24_Witness ==
  /\ IsMaskedQuery
  /\ last.args.mask_before \ heap[fst_parser].mask # {}
  /\ heap[fst_parser].mask \ last.args.mask_before # {}
  /\ \E p \in DOMAIN last.result.result : last.result.result[p] # <<>>

FailedOpen(l) ==
  \/ l.op = "FstParser" /\ l.result.raised
  \/ l.op = "load_fst_file" /\ l.result.kind \in {"FileNotFound", "ErrorLoading"}

\* C25: an attempt to open an FST container that fails, at whichever step of
\* loading, is reported and leaves no reader handle open that was not open
\* before the attempt.
C25_FailedOpenReleases ==
  [][FailedOpen(last') => OpenHandles' \subseteq OpenHandles]_vars

\* C26: a value query of either parser with an unrecognized format selector
\* raises the validation error, for every pattern list and window, also when
\* no signal matches or no change falls inside the window.
C26_InvalidSelectorRejected ==
  (/\ last.op \in ParserValueOps
   /\ Lower(last.args.fmt) \notin {FmtBin, FmtHex, FmtDec}) => last.result.raised

\* the in-window changes of the matched signals the damaged query missed
MissedEvents ==
  {i \in (last.args.damaged_after + 1)..Len(TraceOf(heap[fst_parser].fst_path).events) :
     /\ TraceOf(heap[fst_parser].fst_path).events[i].handle \in heap[fst_parser].mask
     /\ InWindow(TraceOf(heap[fst_parser].fst_path).events[i].time,
                 last.args.start_time, last.args.end_time)}

\* C27: a value query whose block iteration fails part-way (the matched
\* signals still have changes inside the window that were not delivered)
\* fails as a whole; it never returns the changes seen before the failure.
C27_DamagedQueryFails ==
  (/\ last.op = "FstParser.get_signal_values"
   /\ "damaged_after" \in DOMAIN last.args
   /\ FstMatched(heap[fst_parser].signals, last.args.patterns) # {}
   /\ MissedEvents # {}) => last.result.raised

\* C28: a load_vcd_file call that answers with an error (file not found, size
\* limit, any exception while parsing or counting the signals) leaves the
\* current VCD trace as it was; only a successful load changes it.
C28_FailedVcdLoadKeepsCurrent ==
  [][(last'.op = "load_vcd_file" /\ last'.result.kind # "Loaded")
       => vcd_parser' = vcd_parser]_vars

\* C29: in an FST value-query result two matched paths with one handle
\* (aliases) carry the same change list, and no matched path is left with an
\* empty list while its handle has a change inside the window.
C29_AliasesReceiveAllChanges ==
  (last.op = "FstParser.get_signal_values" /\ ~last.result.raised) =>
    \A p \in DOMAIN last.result.result :
      /\ \A q \in DOMAIN last.result.result :
           HandleOf(QueryTrace, p) = HandleOf(QueryTrace, q)
             => last.result.result[p] = last.result.result[q]
      /\ last.result.result[p] = <<>> =>
           \A i \in 1..Len(QueryTrace.events) :
             QueryTrace.events[i].handle = HandleOf(QueryTrace, p)
               => ~InWindow(QueryTrace.events[i].time, last.args.start_time,
                            last.args.end_time)

\* C30: in the text of get_vcd_signal_values every change of a signal is
\* either displayed or counted in the signal's "more entries" line, for every
\* integer limit: min(limit, n) of the n changes are displayed when limit > 0
\* and all n when limit = 0.
C30_NoChangeDropped ==
  (last.op = "get_vcd_signal_values" /\ last.result.kind = "Values") =>
    \A p \in DOMAIN last.result.values :
      /\ Len(last.result.lines[p].shown) + last.result.lines[p].more
           = Len(last.result.values[p])
      /\ last.args.limit > 0 =>
           Len(last.result.lines[p].shown) =
             (IF last.args.limit < Len(last.result.values[p])
              THEN last.args.limit ELSE Len(last.result.values[p]))
      /\ last.args.limit = 0 =>
           last.result.lines[p].shown = last.result.values[p]

====
